---- MODULE Spec2Model ----
(***************************************************************************)
(* A model of src/src/catalog.rs: the ISO 8211 / S-57 catalog decoder.     *)
(* Bytes are the integers 0..255, byte strings are sequences of bytes, and *)
(* a Rust String is represented by its UTF-8 bytes.                        *)
(***************************************************************************)
EXTENDS Integers, Sequences, FiniteSets, TLC

VARIABLES
    rdr,      \* Catalog.rdr: the bytes of the source not yet read
    ddr,      \* Catalog.ddr.data_descriptive_fields: tag -> DDFEntry
    phase,    \* "init" before Catalog::new, then "streaming" or "failed"
    last,     \* what the latest call (new or next) gave to the caller
    errored,  \* an earlier next() on this Catalog returned Some(Err(_))
    yielded,  \* next() has yielded a Some(_) item
    shorts,   \* number of short reads the source has answered so far
    fnIn,     \* the argument of the function under test (pure-function specs)
    fnOut,    \* its result
    pc        \* "start" before the function under test is applied, then "done"

vars == <<rdr, ddr, phase, last, errored, yielded, shorts, fnIn, fnOut, pc>>

(***************************************************************************)
(* Bounds                                                                  *)
(***************************************************************************)
MaxDirLen == 6
MaxElems == 2
MaxRepeat == 2
MaxTags == 2
MaxRecs == 2
MaxShortReads == 1

(***************************************************************************)
(* Constants of the program                                                *)
(***************************************************************************)
RECORD_SEPARATOR == 30
UNIT_SEPARATOR == 31
DRID == <<68, 82, 73, 68>>           \* "DRID"

(***************************************************************************)
(* Results: Ok(v), Err(e), or a panic (an abort of the call).              *)
(* An error carries the kind that err.kind() reports (the outermost        *)
(* context), the name an InvalidDDF carries, and the kind of its root      *)
(* cause.                                                                  *)
(***************************************************************************)
NoErr == [kind |-> "", name |-> <<>>, root |-> ""]
Ok(v) == [tag |-> "Ok", val |-> v, err |-> NoErr]
ErrorKind(k) == [kind |-> k, name |-> <<>>, root |-> k]
Err(e) == [tag |-> "Err", val |-> <<>>, err |-> e]
Panic == [tag |-> "Panic", val |-> <<>>, err |-> NoErr]

\* `let v = e; F(v)`: e is computed once and F works on its value
Let(e, F(_)) == CHOOSE r \in {F(v) : v \in {e}} : TRUE

\* failure::ResultExt::context: the error keeps its cause and takes a new kind
context(r, k, n) ==
    Let(r, LAMBDA res :
        IF res.tag = "Err" THEN Err([kind |-> k, name |-> n, root |-> res.err.root])
        ELSE res)

Min(a, b) == IF a < b THEN a ELSE b
Take(s, n) == SubSeq(s, 1, Min(n, Len(s)))
Drop(s, n) == SubSeq(s, n + 1, Len(s))

(***************************************************************************)
(* std::str::from_utf8: well-formed UTF-8                                  *)
(***************************************************************************)
utf8_char_width(b) ==
    IF b < 128 THEN 1
    ELSE IF b >= 194 /\ b <= 223 THEN 2
    ELSE IF b >= 224 /\ b <= 239 THEN 3
    ELSE IF b >= 240 /\ b <= 244 THEN 4
    ELSE 0

utf8_second_ok(b, c) ==
    IF b = 224 THEN c >= 160 /\ c <= 191
    ELSE IF b = 237 THEN c >= 128 /\ c <= 159
    ELSE IF b = 240 THEN c >= 144 /\ c <= 191
    ELSE IF b = 244 THEN c >= 128 /\ c <= 143
    ELSE c >= 128 /\ c <= 191

RECURSIVE from_utf8(_)
from_utf8(s) ==
    IF s = <<>> THEN TRUE
    ELSE LET w == utf8_char_width(s[1]) IN
         /\ w > 0
         /\ Len(s) >= w
         /\ w >= 2 => utf8_second_ok(s[1], s[2])
         /\ \A i \in 3..w : s[i] >= 128 /\ s[i] <= 191
         /\ Let(Drop(s, w), LAMBDA rest : from_utf8(rest))

(***************************************************************************)
(* str::parse::<usize>: an optional '+', then one or more ASCII digits.    *)
(* The inputs of this model have at most five digits, so the overflow      *)
(* error of the 64-bit parse is out of reach.                              *)
(***************************************************************************)
is_digit(b) == b >= 48 /\ b <= 57

RECURSIVE digits_value(_, _)
digits_value(s, acc) ==
    IF s = <<>> THEN acc ELSE digits_value(Tail(s), acc * 10 + (s[1] - 48))

usize_from_str(s) ==
    LET digits == IF s # <<>> /\ s[1] = 43 THEN Tail(s) ELSE s IN
    IF digits # <<>> /\ \A i \in 1..Len(digits) : is_digit(digits[i])
    THEN Ok(digits_value(digits, 0))
    ELSE Err(ErrorKind("ParseIntError"))

parse_to_usize(bytes) ==
    IF ~from_utf8(bytes) THEN Err(ErrorKind("UtfError")) ELSE usize_from_str(bytes)

parse_to_string(bytes) ==
    IF ~from_utf8(bytes) THEN Err(ErrorKind("UtfError")) ELSE Ok(bytes)

(***************************************************************************)
(* parse_leader: the 19 bytes that follow the 5-byte record length.  The    *)
(* base address has five digits, which `as u32` leaves unchanged.          *)
(***************************************************************************)
parse_leader(byte, len) ==
    IF Len(byte) < 7 THEN Panic
    ELSE IF Len(byte) < 12 THEN Panic
    ELSE
    Let(context(parse_to_usize(SubSeq(byte, 8, 12)), "InvalidLeader", <<>>), LAMBDA ba :
    IF ba.tag # "Ok" THEN ba
    ELSE IF Len(byte) < 16 THEN Panic
    ELSE
    Let(context(parse_to_usize(SubSeq(byte, 16, 16)), "InvalidLeader", <<>>), LAMBDA flf :
    IF flf.tag # "Ok" THEN flf
    ELSE IF Len(byte) < 17 THEN Panic
    ELSE
    Let(context(parse_to_usize(SubSeq(byte, 17, 17)), "InvalidLeader", <<>>), LAMBDA fpf :
    IF fpf.tag # "Ok" THEN fpf
    ELSE IF Len(byte) < 19 THEN Panic
    ELSE
    Let(context(parse_to_usize(SubSeq(byte, 19, 19)), "InvalidLeader", <<>>), LAMBDA ftf :
    IF ftf.tag # "Ok" THEN ftf
    ELSE Ok([rl |-> len, il |-> byte[1], li |-> byte[2], cei |-> byte[3],
             vn |-> byte[4], ai |-> byte[5], fcl |-> SubSeq(byte, 6, 7),
             ba |-> ba.val, csi |-> SubSeq(byte, 13, 15),
             flf |-> flf.val, fpf |-> fpf.val, rsv |-> byte[18], ftf |-> ftf.val])))))

(***************************************************************************)
(* parse_directory: byte.chunks(chunksize), one DirectoryEntry per chunk   *)
(***************************************************************************)
RECURSIVE directory_chunks(_, _, _)
directory_chunks(byte, leader, directories) ==
    LET chunksize == leader.ftf + leader.flf + leader.fpf
        d == Take(byte, chunksize)
    IN
    IF byte = <<>> THEN Ok(directories)
    ELSE IF Len(d) # chunksize THEN Err(ErrorKind("BadDirectoryData"))
    ELSE LET id == parse_to_string(SubSeq(d, 1, leader.ftf)) IN
    IF id.tag # "Ok" THEN id
    ELSE LET length == parse_to_usize(SubSeq(d, leader.ftf + 1, leader.ftf + leader.flf)) IN
    IF length.tag # "Ok" THEN length
    ELSE LET offset == parse_to_usize(SubSeq(d, leader.ftf + leader.flf + 1, Len(d))) IN
    IF offset.tag # "Ok" THEN offset
    ELSE Let(Append(directories,
                    [id |-> id.val, length |-> length.val, offset |-> offset.val]),
             LAMBDA pushed :
                 Let(Drop(byte, chunksize),
                     LAMBDA rest : directory_chunks(rest, leader, pushed)))

\* parse_directory over chunks_exact: the bytes after the last whole chunk are dropped
parse_directory_exact(byte, leader) ==
    LET chunksize == leader.ftf + leader.flf + leader.fpf IN
    IF chunksize = 0 THEN Panic
    ELSE directory_chunks(Take(byte, (Len(byte) \div chunksize) * chunksize), leader, <<>>)

\* parse_directory with the entries pushed at the front of the vector
parse_directory_front(byte, leader) ==
    LET r == IF leader.ftf + leader.flf + leader.fpf = 0 THEN Panic
             ELSE directory_chunks(byte, leader, <<>>)
    IN IF r.tag = "Ok" THEN Ok([i \in 1..Len(r.val) |-> r.val[Len(r.val) + 1 - i]]) ELSE r

\* slice::chunks panics when the chunk size is 0
parse_directory(byte, leader) ==
    IF leader.ftf + leader.flf + leader.fpf = 0 THEN Panic
    ELSE directory_chunks(byte, leader, <<>>)

(***************************************************************************)
(* parse_field_controls: the 9 bytes of field controls of a DDF            *)
(***************************************************************************)
DataStructureCode_from_str(value) ==
    IF value = <<48>> THEN Ok("SDI")
    ELSE IF value = <<49>> THEN Ok("LS")
    ELSE IF value = <<50>> THEN Ok("MDS")
    ELSE Err(ErrorKind("BadDataStructureCode"))

DataTypeCode_from_str(value) ==
    IF value = <<48>> THEN Ok("CS")
    ELSE IF value = <<49>> THEN Ok("IP")
    ELSE IF value = <<50>> THEN Ok("EP")
    ELSE IF value = <<53>> THEN Ok("BF")
    ELSE IF value = <<54>> THEN Ok("MDT")
    ELSE Err(ErrorKind("BadDataTypeCode"))

TruncEscSeq_from_str(value) ==
    IF value = <<32, 32, 32>> THEN Ok("LE0")
    ELSE IF value = <<45, 65, 32>> THEN Ok("LE1")
    ELSE IF value = <<37, 47, 65>> THEN Ok("LE2")
    ELSE Err(ErrorKind("BadTruncEscSeq"))

\* from_utf8(bytes)?.parse::<T>().context(BadFieldControl)?
field_control_code(bytes, T_from_str(_)) ==
    IF ~from_utf8(bytes) THEN Err(ErrorKind("UtfError"))
    ELSE context(T_from_str(bytes), "BadFieldControl", <<>>)

parse_field_controls(byte) ==
    IF Len(byte) < 6 THEN Panic
    ELSE LET dsc == field_control_code(SubSeq(byte, 1, 1), DataStructureCode_from_str) IN
    IF dsc.tag # "Ok" THEN dsc
    ELSE LET dtc == field_control_code(SubSeq(byte, 2, 2), DataTypeCode_from_str) IN
    IF dtc.tag # "Ok" THEN dtc
    ELSE LET aux == parse_to_string(SubSeq(byte, 3, 4)) IN
    IF aux.tag # "Ok" THEN aux
    ELSE LET prt == parse_to_string(SubSeq(byte, 5, 6)) IN
    IF prt.tag # "Ok" THEN prt
    ELSE LET tes == field_control_code(Drop(byte, 6), TruncEscSeq_from_str) IN
    IF tes.tag # "Ok" THEN tes
    ELSE Ok([dsc |-> dsc.val, dtc |-> dtc.val, aux |-> aux.val,
             prt |-> prt.val, tes |-> tes.val])

(***************************************************************************)
(* slice::split / str::split: the pieces between the separators; an empty  *)
(* input has one, empty, piece                                             *)
(***************************************************************************)
\* the k-th (from 1) index of bytes that holds sep; 0 before the first and
\* Len(bytes) + 1 after the last
separator_at(bytes, sep, k) ==
    Let({i \in 1..Len(bytes) : bytes[i] = sep}, LAMBDA at :
        IF k = 0 THEN 0
        ELSE IF k > Cardinality(at) THEN Len(bytes) + 1
        ELSE CHOOSE i \in at : Cardinality({j \in at : j < i}) = k - 1)

split(s, sep) ==
    Let(s, LAMBDA bytes :
        [k \in 1..(Cardinality({i \in 1..Len(bytes) : bytes[i] = sep}) + 1) |->
            SubSeq(bytes, separator_at(bytes, sep, k - 1) + 1,
                          separator_at(bytes, sep, k) - 1)])

(***************************************************************************)
(* parse_array_descriptors: the subfield tags, separated by '!'            *)
(***************************************************************************)
parse_array_descriptors(byte) ==
    IF byte = <<>> THEN Ok(<<DRID>>)
    ELSE Let(parse_to_string(byte), LAMBDA s :
             IF s.tag # "Ok" THEN s ELSE Ok(split(s.val, 33)))

(***************************************************************************)
(* ParseData::from_str (crate::data_parser): one format-control element,   *)
(* [repeatCount]TypeLetter[(width)], as a pair <<count, format spec>>      *)
(***************************************************************************)
RECURSIVE leading_digits(_)
leading_digits(s) ==
    IF s # <<>> /\ is_digit(s[1]) THEN <<s[1]>> \o leading_digits(Tail(s)) ELSE <<>>

ParseType_of(letter) ==
    IF letter = 65 THEN "String"
    ELSE IF letter = 73 THEN "Integer"
    ELSE IF letter = 82 THEN "Float"
    ELSE ""

Fixed(ty, width) == [form |-> "Fixed", ty |-> ty, width |-> width]
Variable(ty) == [form |-> "Variable", ty |-> ty, width |-> 0]

ParseData_from_str(fc) ==
    Let(leading_digits(fc), LAMBDA cnt :
    Let(Drop(fc, Len(cnt)), LAMBDA rest :
    LET count == IF cnt = <<>> THEN 1 ELSE digits_value(cnt, 0)
        ty == IF rest = <<>> THEN "" ELSE ParseType_of(rest[1])
    IN
    IF rest = <<>> \/ ty = "" THEN Err(ErrorKind("EmptyFormatControls"))
    ELSE
    Let(Tail(rest), LAMBDA w :
    IF w = <<>> THEN Ok(<<count, Variable(ty)>>)
    ELSE IF /\ Len(w) >= 3
            /\ w[1] = 40
            /\ w[Len(w)] = 41
            /\ \A i \in 2..(Len(w) - 1) : is_digit(w[i])
         THEN Ok(<<count, Fixed(ty, digits_value(SubSeq(w, 2, Len(w) - 1), 0))>>)
    ELSE Err(ErrorKind("EmptyFormatControls")))))

(***************************************************************************)
(* parse_format_controls: strip the first and the last byte, split on ',', *)
(* decode each element and expand it into `count` copies of its spec       *)
(***************************************************************************)
RECURSIVE collect_format_controls(_, _)
collect_format_controls(fcs, acc) ==
    IF fcs = <<>> THEN Ok(acc)
    ELSE Let(ParseData_from_str(fcs[1]), LAMBDA pd :
             IF pd.tag # "Ok" THEN pd
             ELSE Let(Append(acc, pd.val), LAMBDA pushed :
                  Let(Tail(fcs), LAMBDA rest : collect_format_controls(rest, pushed))))

repeat_take(x, n) == [i \in 1..n |-> x]

\* every element once, its repeat count ignored
RECURSIVE flat_map_once(_)
flat_map_once(pds) ==
    IF pds = <<>> THEN <<>> ELSE <<pds[1][2]>> \o flat_map_once(Tail(pds))

RECURSIVE flat_map_repeat(_)
flat_map_repeat(pds) ==
    IF pds = <<>> THEN <<>>
    ELSE repeat_take(pds[1][2], pds[1][1]) \o flat_map_repeat(Tail(pds))

parse_format_controls(byte) ==
    IF Len(byte) < 2 THEN Err(ErrorKind("EmptyFormatControls"))
    ELSE
    Let(parse_to_string(SubSeq(byte, 2, Len(byte) - 1)), LAMBDA s :
    IF s.tag # "Ok" THEN s
    ELSE
    Let(split(s.val, 44), LAMBDA fcs :
    Let(collect_format_controls(fcs, <<>>), LAMBDA pds :
    IF pds.tag # "Ok" THEN pds
    ELSE Ok(flat_map_repeat(pds.val)))))

(***************************************************************************)
(* parse_ddf: one Data Descriptive Field                                   *)
(***************************************************************************)
zip(a, b) == [i \in 1..Min(Len(a), Len(b)) |-> <<a[i], b[i]>>]

\* the pairing without the comparison of the two lengths
ddf_entry_unchecked(fic, name, array_desc, data_parser) ==
    Ok([fic |-> fic, name |-> name, foc |-> zip(array_desc, data_parser)])

\* the end of parse_ddf: the tags zipped with the format specs when there
\* are as many of the one as of the other
ddf_entry_of(fic, name, array_desc, data_parser) ==
    IF Len(array_desc) = Len(data_parser)
    THEN Ok([fic |-> fic, name |-> name, foc |-> zip(array_desc, data_parser)])
    ELSE Err([kind |-> "InvalidDDF", name |-> name, root |-> "InvalidDDF"])

parse_ddf(byte) ==
    Let(split(byte, UNIT_SEPARATOR), LAMBDA parts :
    IF Len(parts[1]) < 9 THEN Panic   \* split_at(9) past the end of the slice
    ELSE
    Let(SubSeq(parts[1], 1, 9), LAMBDA fic_bytes :
    Let(Drop(parts[1], 9), LAMBDA name_bytes :
    Let(context(parse_to_string(name_bytes), "CouldNotParseName", <<>>), LAMBDA name_r :
    IF name_r.tag # "Ok" THEN name_r
    ELSE
    Let(name_r.val, LAMBDA name :
    Let(context(parse_field_controls(fic_bytes), "InvalidDDF", name), LAMBDA fic :
    IF fic.tag # "Ok" THEN fic
    ELSE IF Len(parts) < 2 THEN Err([kind |-> "InvalidDDF", name |-> name, root |-> "InvalidDDF"])
    ELSE
    Let(context(parse_array_descriptors(parts[2]), "InvalidDDF", name), LAMBDA array_desc :
    IF array_desc.tag # "Ok" THEN array_desc
    ELSE IF Len(parts) < 3 THEN Err([kind |-> "InvalidDDF", name |-> name, root |-> "InvalidDDF"])
    ELSE
    Let(context(parse_format_controls(parts[3]), "InvalidDDF", name), LAMBDA data_parser :
    IF data_parser.tag # "Ok" THEN data_parser
    ELSE ddf_entry_of(fic.val, name, array_desc.val, data_parser.val)))))))))

(***************************************************************************)
(* HashMap: a function from keys to values; insert replaces an equal key   *)
(***************************************************************************)
HashMap_new == <<>>
HashMap_insert(m, k, v) == [x \in (DOMAIN m) \cup {k} |-> IF x = k THEN v ELSE m[x]]

(***************************************************************************)
(* parse_ddfs: the DDFs of the DDR, the first directory entry skipped      *)
(***************************************************************************)
RECURSIVE collect_ddfs(_, _, _)
collect_ddfs(byte, dirs, map) ==
    IF dirs = <<>> THEN Ok(map)
    ELSE LET dir == dirs[1]
             s == dir.offset
             e == dir.offset + dir.length - 1
         IN
         \* offset + length - 1 underflows, or the slice s..e is out of range
         IF e < 0 \/ s > e \/ e > Len(byte) THEN Panic
         ELSE Let(context(parse_ddf(SubSeq(byte, s + 1, e)), "InvalidDDFS", <<>>),
                  LAMBDA ddf_entry :
              IF ddf_entry.tag # "Ok" THEN ddf_entry
              ELSE Let(HashMap_insert(map, dir.id, ddf_entry.val), LAMBDA inserted :
                   Let(Tail(dirs), LAMBDA rest : collect_ddfs(byte, rest, inserted))))

parse_ddfs(byte, dirs) ==
    IF dirs = <<>> THEN Ok(HashMap_new)
    ELSE Let(Tail(dirs), LAMBDA rest : collect_ddfs(byte, rest, HashMap_new))

(***************************************************************************)
(* parse_dir_and_field_area: frame one record of the reader r.             *)
(* nr_of_bytes is what the read of the length prefix returned; drained     *)
(* tells whether a failed read_exact consumed the rest of the source (how  *)
(* much it consumes is unspecified).  The result is the Result together    *)
(* with what is left of the reader.                                        *)
(***************************************************************************)
Framed(res, r) == [res |-> res, rdr |-> r]

\* the index (from 0) of the first byte b of data, or -1 when there is none
position(data, b) ==
    IF \A i \in 1..Len(data) : data[i] # b THEN -1
    ELSE (CHOOSE i \in 1..Len(data) :
            data[i] = b /\ \A j \in 1..(i - 1) : data[j] # b) - 1

\* the record from its length prefix on: r1 is the reader after the prefix
read_record(len_bytes, r1, drained) ==
    Let(parse_to_usize(len_bytes), LAMBDA length :
    IF length.tag # "Ok" THEN Framed(length, r1)
    \* length - 5 overflows, or the allocation of 2^64 + length - 5 bytes fails
    ELSE IF length.val < 5 THEN Framed(Panic, r1)
    ELSE IF Len(r1) < length.val - 5
         THEN Framed(Err(ErrorKind("IOError")), IF drained THEN <<>> ELSE r1)
    ELSE
    Let(Take(r1, length.val - 5), LAMBDA data :
    Let(Drop(r1, length.val - 5), LAMBDA r2 :
    IF Len(data) < 19 THEN Framed(Panic, r2)
    ELSE
    Let(parse_leader(Take(data, 19), length.val), LAMBDA leader :
    IF leader.tag # "Ok" THEN Framed(leader, r2)
    ELSE
    Let(position(data, RECORD_SEPARATOR), LAMBDA field_area_idx :
    IF field_area_idx = -1 THEN Framed(Err(ErrorKind("BadDirectoryData")), r2)
    \* the slice 19..field_area_idx has its end before its start
    ELSE IF field_area_idx < 19 THEN Framed(Panic, r2)
    ELSE
    Let(parse_directory(SubSeq(data, 20, field_area_idx), leader.val), LAMBDA dirs :
    IF dirs.tag # "Ok" THEN Framed(dirs, r2)
    ELSE Framed(Ok([dirs |-> dirs.val,
                    field_area |-> Drop(data, field_area_idx + 1)]), r2)))))))

parse_dir_and_field_area(r, nr_of_bytes, drained) ==
    IF nr_of_bytes = 0 THEN Framed(Err(ErrorKind("EOF")), r)
    ELSE IF nr_of_bytes # 5 THEN Framed(Err(ErrorKind("IOError")), Drop(r, nr_of_bytes))
    ELSE read_record(Take(r, 5), Drop(r, 5), drained)

(***************************************************************************)
(* parse_ddr and Catalog::new                                              *)
(***************************************************************************)
parse_ddr(r, nr_of_bytes, drained) ==
    Let(parse_dir_and_field_area(r, nr_of_bytes, drained), LAMBDA f :
    IF f.res.tag # "Ok" THEN f
    ELSE
    Let(context(parse_ddfs(f.res.val.field_area, f.res.val.dirs), "InvalidDDR", <<>>),
        LAMBDA data_descriptive_fields :
    IF data_descriptive_fields.tag # "Ok" THEN Framed(data_descriptive_fields, f.rdr)
    ELSE Framed(Ok([dirs |-> f.res.val.dirs,
                    data_descriptive_fields |-> data_descriptive_fields.val]), f.rdr)))

Catalog_new(r, nr_of_bytes, drained) ==
    Let(parse_ddr(r, nr_of_bytes, drained), LAMBDA d :
        Framed(context(d.res, "CouldNotParseCatalog", <<>>), d.rdr))

(***************************************************************************)
(* ParseData::parse (crate::data_parser): the scalar decoder.  It reads    *)
(* one subfield at the cursor cur (bytes already consumed) of data and     *)
(* advances the cursor: a Fixed spec takes `width` bytes, a Variable spec  *)
(* the bytes up to a unit separator, which it consumes as well.            *)
(***************************************************************************)
Decoded(tag, val, cur) == [tag |-> tag, val |-> val, cur |-> cur]

Data(ty, bytes) == [ty |-> ty, bytes |-> bytes]

data_value(pd, bytes, cur) ==
    IF pd.ty = "Integer" /\ bytes # <<>> /\ parse_to_usize(bytes).tag # "Ok"
    THEN Decoded("Err", <<>>, cur)
    ELSE Decoded("Ok", Data(pd.ty, bytes), cur)

ParseData_parse(pd, data, cur) ==
    IF pd.form = "Fixed"
    THEN IF cur + pd.width > Len(data) THEN Decoded("Err", <<>>, cur)
         ELSE data_value(pd, SubSeq(data, cur + 1, cur + pd.width), cur + pd.width)
    ELSE Let(position(Drop(data, cur), UNIT_SEPARATOR), LAMBDA end :
         IF end = -1 THEN Decoded("Err", <<>>, cur)
         ELSE data_value(pd, SubSeq(data, cur + 1, cur + end), cur + end + 1))

(***************************************************************************)
(* Catalog::parse_dr: frame one Data Record and decode its fields with the *)
(* schema, one cursor running over the whole field area                    *)
(***************************************************************************)
\* ddf_entry.foc.iter().map(parser.parse(&mut cur)).collect::<Result<Field>>()
RECURSIVE collect_field(_, _, _, _)
collect_field(foc, data, cur, field) ==
    IF foc = <<>> THEN Decoded("Ok", field, cur)
    ELSE Let(ParseData_parse(foc[1][2], data, cur), LAMBDA v :
         IF v.tag # "Ok" THEN v
         ELSE Let(HashMap_insert(field, foc[1][1], v.val), LAMBDA inserted :
              Let(Tail(foc), LAMBDA rest : collect_field(rest, data, v.cur, inserted))))

\* the loop over the directory entries; starts notes, for each entry whose
\* subfields were decoded, the entry's offset and where the cursor stood
DrLoop(res, starts) == [res |-> res, starts |-> starts]

RECURSIVE decode_entries(_, _, _, _, _, _)
decode_entries(dirs, schema, field_data, cur, record, starts) ==
    IF dirs = <<>> THEN DrLoop(Ok(record), starts)
    ELSE LET dir_entry == dirs[1] IN
    IF dir_entry.id \notin DOMAIN schema THEN DrLoop(Err(ErrorKind("InvalidDR")), starts)
    ELSE
    Let(schema[dir_entry.id], LAMBDA ddf_entry :
    Let(collect_field(ddf_entry.foc, field_data, cur, HashMap_new), LAMBDA field_area :
    Let(Append(starts, [offset |-> dir_entry.offset, cur |-> cur]), LAMBDA started :
    IF field_area.tag # "Ok"
    THEN DrLoop(Err([kind |-> "InvalidDR", name |-> <<>>, root |-> "ParseDataError"]), started)
    \* "Jump over" the last RECORD_SEPARATOR byte: cur.seek(SeekFrom::Current(1))
    ELSE Let(HashMap_insert(record, dir_entry.id, field_area.val), LAMBDA inserted :
         Let(Tail(dirs), LAMBDA rest :
             decode_entries(rest, schema, field_data, field_area.cur + 1,
                            inserted, started))))))

Parsed(res, r, dirs, starts) == [res |-> res, rdr |-> r, dirs |-> dirs, starts |-> starts]
Some(record) == [some |-> TRUE, record |-> record]
None == [some |-> FALSE, record |-> <<>>]

\* parse_dr ending the sequence on every framing error, not on EOF alone
parse_dr_any_error_ends(schema, r, nr_of_bytes, drained) ==
    Let(parse_dir_and_field_area(r, nr_of_bytes, drained), LAMBDA f :
    IF f.res.tag = "Panic" THEN Parsed(Panic, f.rdr, <<>>, <<>>)
    ELSE IF f.res.tag = "Err" THEN Parsed(Ok(None), f.rdr, <<>>, <<>>)
    ELSE
    Let(decode_entries(f.res.val.dirs, schema, f.res.val.field_area, 0, HashMap_new, <<>>),
        LAMBDA d :
    IF d.res.tag = "Ok"
    THEN Parsed(Ok(Some(d.res.val)), f.rdr, f.res.val.dirs, d.starts)
    ELSE Parsed(d.res, f.rdr, f.res.val.dirs, d.starts)))

parse_dr(schema, r, nr_of_bytes, drained) ==
    Let(parse_dir_and_field_area(r, nr_of_bytes, drained), LAMBDA f :
    IF f.res.tag = "Panic" THEN Parsed(Panic, f.rdr, <<>>, <<>>)
    ELSE IF f.res.tag = "Err"
    THEN IF f.res.err.kind = "EOF"
         THEN Parsed(Ok(None), f.rdr, <<>>, <<>>)
         ELSE Parsed(f.res, f.rdr, <<>>, <<>>)
    ELSE
    Let(decode_entries(f.res.val.dirs, schema, f.res.val.field_area, 0, HashMap_new, <<>>),
        LAMBDA d :
    IF d.res.tag = "Ok"
    THEN Parsed(Ok(Some(d.res.val)), f.rdr, f.res.val.dirs, d.starts)
    ELSE Parsed(d.res, f.rdr, f.res.val.dirs, d.starts)))

(***************************************************************************)
(* Iterator::next: what the caller of next() gets.  kind is "Record" for   *)
(* Some(Ok(_)), "Err" for Some(Err(_)), "None" for None and "Panic" when   *)
(* the call panicked; nread, dirs and starts keep what the call read as    *)
(* length prefix, its directory and where each entry's decoding started.   *)
(***************************************************************************)
Item(kind, record, err, nread, dirs, starts) ==
    [kind |-> kind, record |-> record, err |-> err, nread |-> nread,
     dirs |-> dirs, starts |-> starts]

ItemOf(p, nr_of_bytes) ==
    IF p.res.tag = "Panic" THEN Item("Panic", <<>>, NoErr, nr_of_bytes, p.dirs, p.starts)
    ELSE IF p.res.tag = "Err" THEN Item("Err", <<>>, p.res.err, nr_of_bytes, p.dirs, p.starts)
    ELSE IF p.res.val.some
         THEN Item("Record", p.res.val.record, NoErr, nr_of_bytes, p.dirs, p.starts)
    ELSE Item("None", <<>>, NoErr, nr_of_bytes, p.dirs, p.starts)

\* next() over a reader that is put back where it was when the record fails
Catalog_next_rewinding(schema, r, nr_of_bytes, drained) ==
    Let(parse_dr(schema, r, nr_of_bytes, drained), LAMBDA p :
        [item |-> ItemOf(p, nr_of_bytes), rdr |-> IF p.res.tag = "Err" THEN r ELSE p.rdr])

Catalog_next(schema, r, nr_of_bytes, drained) ==
    Let(parse_dr(schema, r, nr_of_bytes, drained), LAMBDA p :
        [item |-> ItemOf(p, nr_of_bytes), rdr |-> p.rdr])

(***************************************************************************)
(* Byte sources.  Records are laid out as the format prescribes: a 5-digit *)
(* length, the 19 further bytes of the leader, the directory, a record     *)
(* separator and the field area.                                           *)
(***************************************************************************)
RECURSIVE Digits(_, _)
Digits(n, width) ==
    IF width = 0 THEN <<>> ELSE Digits(n \div 10, width - 1) \o <<48 + (n % 10)>>

RECURSIVE Concat(_)
Concat(ss) == IF ss = <<>> THEN <<>> ELSE ss[1] \o Concat(Tail(ss))

\* "3LE1 09" base " ! " flf fpf "0" ftf, after the leader of the test suite
LeaderBytes(base, flf, fpf, ftf) ==
    <<51, 76, 69, 49, 32, 48, 57>> \o Digits(base, 5) \o <<32, 33, 32>>
        \o <<flf, fpf, 48, ftf>>

DirBytes(dirs, flf, fpf) ==
    Concat([i \in 1..Len(dirs) |->
              dirs[i].id \o Digits(dirs[i].length, flf) \o Digits(dirs[i].offset, fpf)])

\* a record with the entry-map digits 2, 2, 1, the given directory and field area
MkRecord(dirs, area) ==
    LET body == LeaderBytes(24 + 5 * Len(dirs) + 1, 50, 50, 49)
                    \o DirBytes(dirs, 2, 2) \o <<RECORD_SEPARATOR>> \o area
    IN Digits(5 + Len(body), 5) \o body

Entry(id, length, offset) == [id |-> id, length |-> length, offset |-> offset]

\* the DDF of a field: field controls "1600;&-A ", name, array descriptor, formats
MkDDF(name, arr, fmt) ==
    <<49, 54, 48, 48, 59, 38, 45, 65, 32>> \o name \o <<UNIT_SEPARATOR>> \o arr
        \o <<UNIT_SEPARATOR>> \o fmt \o <<RECORD_SEPARATOR>>

FCF == <<48, 48, 48, 48, RECORD_SEPARATOR>>
\* field "A" (65), named "N": subfields X!Y with formats (A(1),I(1))
DDF_A == MkDDF(<<78>>, <<88, 33, 89>>, <<40, 65, 40, 49, 41, 44, 73, 40, 49, 41, 41>>)
\* field "B" (66), named "M": the unnamed record identifier with format (R)
DDF_B == MkDDF(<<77>>, <<>>, <<40, 82, 41>>)
\* a DDF whose two subfield tags meet one format
DDF_Bad == MkDDF(<<78>>, <<88, 33, 89>>, <<40, 65, 41>>)

DDR_Good ==
    MkRecord(<<Entry(<<48>>, Len(FCF), 0), Entry(<<65>>, Len(DDF_A), Len(FCF)),
               Entry(<<66>>, Len(DDF_B), Len(FCF) + Len(DDF_A))>>,
             FCF \o DDF_A \o DDF_B)
DDR_Mismatch ==
    MkRecord(<<Entry(<<48>>, Len(FCF), 0), Entry(<<65>>, Len(DDF_Bad), Len(FCF))>>,
             FCF \o DDF_Bad)
\* the directory entry of field "A" reaches past the end of the field area
DDR_Overrun ==
    MkRecord(<<Entry(<<48>>, Len(FCF), 0), Entry(<<65>>, Len(DDF_A) + 9, Len(FCF))>>,
             FCF \o DDF_A)

\* field areas of Data Records: "a5" RS for field A, "7" US RS for field B
Area_A == <<97, 53, RECORD_SEPARATOR>>
Area_A2 == <<98, 54, RECORD_SEPARATOR>>
Area_B == <<55, UNIT_SEPARATOR, RECORD_SEPARATOR>>

DR_A == MkRecord(<<Entry(<<65>>, 3, 0)>>, Area_A)
DR_AB == MkRecord(<<Entry(<<65>>, 3, 0), Entry(<<66>>, 3, 3)>>, Area_A \o Area_B)
\* two fields with the same tag
DR_AA == MkRecord(<<Entry(<<65>>, 3, 0), Entry(<<65>>, 3, 3)>>, Area_A \o Area_A2)
\* the only field starts at byte 3 of the field area, after three other bytes
DR_Gap == MkRecord(<<Entry(<<65>>, 3, 3)>>, Area_A2 \o Area_A)
\* a tag the schema does not know
DR_Unknown == MkRecord(<<Entry(<<67>>, 3, 0)>>, Area_A)
\* an Integer subfield that is no number
DR_BadInt == MkRecord(<<Entry(<<65>>, 3, 0)>>, <<97, 120, RECORD_SEPARATOR>>)
\* entry-map widths 0, 0, 0
DR_ZeroWidths ==
    LET body == LeaderBytes(25, 48, 48, 48) \o <<RECORD_SEPARATOR>> IN
    Digits(5 + Len(body), 5) \o body
\* a record of 10 bytes: shorter than a leader
DR_Short == Digits(10, 5) \o <<51, 76, 69, 49, 32>>
\* a record length below the 5 bytes of the length itself
DR_Len3 == Digits(3, 5)
\* a record cut off in its field area
DR_Cut == SubSeq(DR_A, 1, Len(DR_A) - 2)
\* two stray bytes
DR_Stray == <<48, 48>>

DRSamples ==
    <<DR_A, DR_AB, DR_AA, DR_Gap, DR_Unknown, DR_BadInt, DR_ZeroWidths,
      DR_Short, DR_Len3, DR_Cut, DR_Stray>>

Sources ==
    {<<>>, DDR_Mismatch, DDR_Overrun, SubSeq(DDR_Good, 1, 40), SubSeq(DDR_Good, 1, 3)}
    \cup {DDR_Good \o Concat([i \in 1..Len(pick) |-> DRSamples[pick[i]]]) :
             pick \in UNION {[1..k -> 1..Len(DRSamples)] : k \in 0..MaxRecs}}

\* an unsigned decimal number as str::parse accepts it
IsNumber(s) ==
    LET d == IF s # <<>> /\ s[1] = 43 THEN Tail(s) ELSE s IN
    d # <<>> /\ \A i \in 1..Len(d) : d[i] \in 48..57

RECURSIVE NumberValue(_)
NumberValue(s) ==
    IF s = <<>> \/ s = <<43>> THEN 0
    ELSE NumberValue(SubSeq(s, 1, Len(s) - 1)) * 10 + (s[Len(s)] - 48)

(***************************************************************************)
(* The stream: Catalog::new, then next() as often as the caller likes.     *)
(* A panic of next() unwinds out of the call and leaves the Catalog with   *)
(* the reader where the call left it.                                      *)
(***************************************************************************)
NoCall == Item("NoCall", <<>>, NoErr, 0, <<>>, <<>>)
NoResult == [tag |-> "None", val |-> <<>>, err |-> NoErr]

\* Read::read into a 5-byte buffer: 0 at the end of the source, otherwise
\* all it can or, for a source that answers with short reads, less
ReadCounts(r) ==
    IF r = <<>> THEN {0}
    ELSE {Min(5, Len(r))}
         \cup (IF shorts < MaxShortReads THEN 1..Min(5, Len(r)) ELSE {})

Init ==
    /\ rdr \in Sources
    /\ ddr = HashMap_new
    /\ phase = "init"
    /\ last = NoCall
    /\ errored = FALSE
    /\ yielded = FALSE
    /\ shorts = 0
    /\ fnIn = <<>>
    /\ fnOut = NoResult
    /\ pc = "stream"

New ==
    /\ phase = "init"
    /\ \E nr_of_bytes \in ReadCounts(rdr), drained \in BOOLEAN :
         \E c \in {Catalog_new(rdr, nr_of_bytes, drained)} :
         /\ rdr' = c.rdr
         /\ shorts' = IF nr_of_bytes < Min(5, Len(rdr)) THEN shorts + 1 ELSE shorts
         /\ IF c.res.tag = "Ok"
            THEN /\ ddr' = c.res.val.data_descriptive_fields
                 /\ phase' = "streaming"
                 /\ last' = Item("Catalog", <<>>, NoErr, nr_of_bytes, c.res.val.dirs, <<>>)
            ELSE /\ ddr' = ddr
                 /\ phase' = "failed"
                 /\ last' = Item(c.res.tag, <<>>, c.res.err, nr_of_bytes, <<>>, <<>>)
    /\ UNCHANGED <<errored, yielded, fnIn, fnOut, pc>>

Next_ ==
    /\ phase = "streaming"
    /\ \E nr_of_bytes \in ReadCounts(rdr), drained \in BOOLEAN :
         \E n \in {Catalog_next(ddr, rdr, nr_of_bytes, drained)} :
         /\ rdr' = n.rdr
         /\ shorts' = IF nr_of_bytes < Min(5, Len(rdr)) THEN shorts + 1 ELSE shorts
         /\ last' = n.item
         /\ errored' = (errored \/ last.kind = "Err")
         /\ yielded' = (yielded \/ n.item.kind \in {"Record", "Err"})
    /\ UNCHANGED <<ddr, phase, fnIn, fnOut, pc>>

Next == New \/ Next_

Spec == Init /\ [][Next]_vars

\* the caller keeps calling next() for as long as a call can change anything
FairSpec == Spec /\ WF_vars(Next_)

\* C1 (the claim): once next() has returned an error, no later next() on the
\* same Catalog yields a Record.
C1_NoRecordAfterError == ~(errored /\ last.kind = "Record")

\* C2 (the claim): the decoding of each directory entry's first subfield
\* starts at byte `offset` of the field area.
C2_CursorAtEntryOffset ==
    \A i \in 1..Len(last.starts) : last.starts[i].cur = last.starts[i].offset

\* C3 (the claim): Catalog::new and every next() return a value; none panics.
C3_NeverPanics == last.kind # "Panic"

\* C10 (the claim): a Record has exactly one Field for each directory entry
\* of the Data Record it was decoded from.
C10_OneFieldPerEntry ==
    last.kind = "Record" => Cardinality(DOMAIN last.record) = Len(last.dirs)

\* the source starts with a well-formed record length of at least 5 that
\* promises more bytes than the source has left
TruncatedBody(r) ==
    /\ Len(r) >= 5
    /\ IsNumber(SubSeq(r, 1, 5))
    /\ NumberValue(SubSeq(r, 1, 5)) >= 5
    /\ Len(r) < NumberValue(SubSeq(r, 1, 5))

C9_FiniteSequence ==
    /\ [][(phase = "streaming" /\ last'.kind \in {"Record", "Err"}) => Len(rdr') < Len(rdr)]_vars
    /\ (phase = "streaming") ~> (last.kind = "None")

C9_Witness ==
    /\ phase = "streaming"
    /\ last.kind = "None"
    /\ yielded

(***************************************************************************)
(* parse_directory on its own: every byte region up to MaxDirLen bytes     *)
(* over DirAlphabet ('0', '1', 'A' and the byte 0xFF, which no UTF-8 text  *)
(* contains), under each of the entry maps of DirLeaders                   *)
(***************************************************************************)
DirAlphabet == {48, 49, 65, 255}

DirLeaders ==
    {[ftf |-> m[1], flf |-> m[2], fpf |-> m[3]] :
        m \in {<<1, 1, 1>>, <<2, 1, 1>>, <<1, 2, 1>>, <<1, 1, 2>>, <<0, 1, 1>>,
               <<1, 0, 1>>, <<0, 0, 0>>}}

DirInputs ==
    {[byte |-> b, leader |-> l] :
        b \in UNION {[1..k -> DirAlphabet] : k \in 0..MaxDirLen}, l \in DirLeaders}

InitFn(inputs) ==
    /\ rdr = <<>>
    /\ ddr = HashMap_new
    /\ phase = "init"
    /\ last = NoCall
    /\ errored = FALSE
    /\ yielded = FALSE
    /\ shorts = 0
    /\ fnIn \in inputs
    /\ fnOut = NoResult
    /\ pc = "start"

InitDir == InitFn(DirInputs)

ParseDirectoryCall ==
    /\ pc = "start"
    /\ fnOut' = parse_directory(fnIn.byte, fnIn.leader)
    /\ pc' = "done"
    /\ UNCHANGED <<rdr, ddr, phase, last, errored, yielded, shorts, fnIn>>

NextDir == ParseDirectoryCall

SpecDir == InitDir /\ [][NextDir]_vars

(***************************************************************************)
(* What a directory chunk holds, read off the byte region by position      *)
(***************************************************************************)
ChunkWidth == fnIn.leader.ftf + fnIn.leader.flf + fnIn.leader.fpf
ChunkAt(i) == SubSeq(fnIn.byte, (i - 1) * ChunkWidth + 1, i * ChunkWidth)
TagOf(chunk) == SubSeq(chunk, 1, fnIn.leader.ftf)
LengthOf(chunk) == SubSeq(chunk, fnIn.leader.ftf + 1, fnIn.leader.ftf + fnIn.leader.flf)
PositionOf(chunk) == SubSeq(chunk, fnIn.leader.ftf + fnIn.leader.flf + 1, ChunkWidth)

ChunkDecodes(chunk) ==
    from_utf8(TagOf(chunk)) /\ IsNumber(LengthOf(chunk)) /\ IsNumber(PositionOf(chunk))

\* C4 as claimed: a directory region whose length is not a multiple of the
\* chunk width w always fails with BadDirectoryData, whatever its earlier chunks hold.
C4_AlwaysBadDirectoryData ==
    (pc = "done" /\ ChunkWidth >= 1 /\ Len(fnIn.byte) % ChunkWidth # 0)
        => (fnOut.tag = "Err" /\ fnOut.err.kind = "BadDirectoryData")

\* C4 as amended: such a region never yields entries; the failure is
\* BadDirectoryData exactly when every earlier full-width chunk decodes, and
\* otherwise the UTF-8 or integer-parse error of a chunk; with w = 0 the call panics.
C4_RemainderFails ==
    (pc = "done" /\ (IF ChunkWidth = 0 THEN fnIn.byte # <<>>
                     ELSE Len(fnIn.byte) % ChunkWidth # 0))
        => IF ChunkWidth = 0 THEN fnOut.tag = "Panic"
           ELSE /\ fnOut.tag = "Err"
                /\ fnOut.err.kind \in {"BadDirectoryData", "UtfError", "ParseIntError"}
                /\ (fnOut.err.kind = "BadDirectoryData")
                      <=> (\A i \in 1..(Len(fnIn.byte) \div ChunkWidth) : ChunkDecodes(ChunkAt(i)))

C4_Witness ==
    /\ pc = "done"
    /\ ChunkWidth >= 1
    /\ Len(fnIn.byte) > ChunkWidth
    /\ Len(fnIn.byte) % ChunkWidth # 0
    /\ fnOut.tag = "Err"
    /\ fnOut.err.kind = "BadDirectoryData"

\* C5 as claimed: a directory region of length exactly k*w always yields
\* exactly k entries.
C5_AlwaysYieldsEntries ==
    (pc = "done" /\ ChunkWidth >= 1 /\ Len(fnIn.byte) % ChunkWidth = 0)
        => (fnOut.tag = "Ok" /\ Len(fnOut.val) = Len(fnIn.byte) \div ChunkWidth)

\* C5 as amended: a region of length exactly k*w (w >= 1) yields exactly k
\* entries in input order, the i-th taking tag, length and offset from the
\* three parts of the i-th chunk, whenever every chunk's tag is UTF-8 and its
\* length and position are unsigned decimal numbers; otherwise it fails with
\* the UTF-8 or integer-parse error of a chunk.
C5_EntriesInOrder ==
    (pc = "done" /\ ChunkWidth >= 1 /\ Len(fnIn.byte) % ChunkWidth = 0)
        => LET k == Len(fnIn.byte) \div ChunkWidth IN
           IF \A i \in 1..k : ChunkDecodes(ChunkAt(i))
           THEN /\ fnOut.tag = "Ok"
                /\ Len(fnOut.val) = k
                /\ \A i \in 1..k :
                     /\ fnOut.val[i].id = TagOf(ChunkAt(i))
                     /\ fnOut.val[i].length = NumberValue(LengthOf(ChunkAt(i)))
                     /\ fnOut.val[i].offset = NumberValue(PositionOf(ChunkAt(i)))
           ELSE fnOut.tag = "Err" /\ fnOut.err.kind \in {"UtfError", "ParseIntError"}

C5_Witness ==
    /\ pc = "done"
    /\ fnOut.tag = "Ok"
    /\ Len(fnOut.val) = 2
    /\ fnOut.val[1] # fnOut.val[2]
    /\ fnOut.val[1].length # fnOut.val[1].offset

(***************************************************************************)
(* parse_format_controls on its own.  A format-control list is written     *)
(* from its elements: a repeat count (-1 when absent), a type letter and a *)
(* width (-1 when absent).                                                 *)
(***************************************************************************)
RECURSIVE Decimal(_)
Decimal(n) == IF n < 10 THEN <<48 + n>> ELSE Decimal(n \div 10) \o <<48 + (n % 10)>>

RECURSIVE Join(_, _)
Join(ss, sep) ==
    IF ss = <<>> THEN <<>>
    ELSE IF Len(ss) = 1 THEN ss[1]
    ELSE ss[1] \o <<sep>> \o Join(Tail(ss), sep)

Element(count, letter, width) == [count |-> count, letter |-> letter, width |-> width]

ElementBytes(e) ==
    (IF e.count = -1 THEN <<>> ELSE Decimal(e.count))
        \o <<e.letter>>
        \o (IF e.width = -1 THEN <<>> ELSE <<40>> \o Decimal(e.width) \o <<41>>)

FormatBytes(elems) ==
    <<40>> \o Join([i \in 1..Len(elems) |-> ElementBytes(elems[i])], 44) \o <<41>>

\* the format spec an element stands for, and how often
SpecOfElement(e) ==
    LET ty == CASE e.letter = 65 -> "String" [] e.letter = 73 -> "Integer"
                [] e.letter = 82 -> "Float"
    IN IF e.width = -1 THEN [form |-> "Variable", ty |-> ty, width |-> 0]
       ELSE [form |-> "Fixed", ty |-> ty, width |-> e.width]
CountOfElement(e) == IF e.count = -1 THEN 1 ELSE e.count

RECURSIVE CountBefore(_, _)
CountBefore(elems, i) ==
    IF i <= 1 THEN 0 ELSE CountBefore(elems, i - 1) + CountOfElement(elems[i - 1])
CountAll(elems) == CountBefore(elems, Len(elems) + 1)

FmtElements ==
    {Element(c, t, w) : c \in {-1, 12} \cup 0..MaxRepeat, t \in {65, 73, 82}, w \in {-1, 2, 10}}

\* lists of one to MaxElems elements, and the segments of length 0 and 1
FmtInputs ==
    {[elems |-> es, byte |-> FormatBytes(es)] :
        es \in UNION {[1..k -> FmtElements] : k \in 1..MaxElems}}
    \cup {[elems |-> <<>>, byte |-> b] : b \in {<<>>, <<40>>, <<41>>, <<65>>, <<44>>}}

InitFmt == InitFn(FmtInputs)

ParseFormatControlsCall ==
    /\ pc = "start"
    /\ fnOut' = parse_format_controls(fnIn.byte)
    /\ pc' = "done"
    /\ UNCHANGED <<rdr, ddr, phase, last, errored, yielded, shorts, fnIn>>

NextFmt == ParseFormatControlsCall

SpecFmt == InitFmt /\ [][NextFmt]_vars

\* C8: a list of elements with repeat counts c1..cn decodes to c1+...+cn
\* format specs, c1 copies of the first element's spec, then c2 copies of the
\* second's, and so on; a segment of length 0 or 1 fails with EmptyFormatControls.
C8_RepeatsExpandInOrder ==
    pc = "done" =>
        /\ Len(fnIn.byte) < 2 => (fnOut.tag = "Err" /\ fnOut.err.kind = "EmptyFormatControls")
        /\ fnIn.elems # <<>> =>
             /\ fnOut.tag = "Ok"
             /\ Len(fnOut.val) = CountAll(fnIn.elems)
             /\ \A i \in 1..Len(fnIn.elems) :
                  \A j \in 1..CountOfElement(fnIn.elems[i]) :
                     fnOut.val[CountBefore(fnIn.elems, i) + j] = SpecOfElement(fnIn.elems[i])

C8_Witness ==
    /\ pc = "done"
    /\ Len(fnIn.elems) = 2
    /\ fnIn.elems[1].count = 2
    /\ fnIn.elems[2].count = -1
    /\ SpecOfElement(fnIn.elems[1]) # SpecOfElement(fnIn.elems[2])
    /\ fnOut.tag = "Ok"
    /\ Len(fnOut.val) = 3

(***************************************************************************)
(* parse_ddf on its own.  A DDF is written from its field controls, name,  *)
(* subfield tags and format elements; `parts` tells how many of its three  *)
(* segments it has.                                                        *)
(***************************************************************************)
\* "1600;&-A ", "9600;&-A " (no data structure code 9) and the two bytes "16"
Fic_Good == <<49, 54, 48, 48, 59, 38, 45, 65, 32>>
Fic_BadCode == <<57, 54, 48, 48, 59, 38, 45, 65, 32>>
Fic_Short == <<49, 54>>

DdfElements ==
    {Element(-1, 65, -1), Element(2, 73, 2), Element(-1, 82, 2), Element(0, 65, -1)}

DdfBytes(fic, name, tags, elems, parts) ==
    fic \o name
        \o (IF parts >= 2 THEN <<UNIT_SEPARATOR>> \o Join(tags, 33) ELSE <<>>)
        \o (IF parts >= 3 THEN <<UNIT_SEPARATOR>> \o FormatBytes(elems) ELSE <<>>)

DdfInputs ==
    {[fic |-> f, name |-> n, tags |-> t, elems |-> es, parts |-> p,
      byte |-> DdfBytes(f, n, t, es, p)] :
        f \in {Fic_Good, Fic_BadCode, Fic_Short},
        n \in {<<78>>, <<78, 255>>},
        t \in UNION {[1..k -> {<<88>>, <<89, 90>>}] : k \in 0..MaxTags},
        es \in UNION {[1..k -> DdfElements] : k \in 1..MaxElems},
        p \in 1..3}

InitDdf == InitFn(DdfInputs)

ParseDdfCall ==
    /\ pc = "start"
    /\ fnOut' = parse_ddf(fnIn.byte)
    /\ pc' = "done"
    /\ UNCHANGED <<rdr, ddr, phase, last, errored, yielded, shorts, fnIn>>

NextDdf == ParseDdfCall

SpecDdf == InitDdf /\ [][NextDdf]_vars

\* the subfield tags of the array descriptor: the written ones, or the
\* record identifier when none is written
TagsOfInput == IF fnIn.tags = <<>> THEN <<DRID>> ELSE fnIn.tags
SpecsOfInput ==
    [n \in 1..CountAll(fnIn.elems) |->
        SpecOfElement(fnIn.elems[CHOOSE i \in 1..Len(fnIn.elems) :
            CountBefore(fnIn.elems, i) < n /\ n <= CountBefore(fnIn.elems, i + 1)])]
NameOfInput == fnIn.name

\* C6 as claimed: a DDF whose tag count differs from its expanded format
\* count fails with InvalidDDF(name); with equal counts decoding always
\* succeeds and pairs the i-th tag with the i-th expanded format spec.
C6_CountsDecide ==
    (pc = "done" /\ fnIn.parts = 3 /\ Len(fnIn.fic) = 9) =>
        IF Len(TagsOfInput) # Len(SpecsOfInput)
        THEN fnOut.tag = "Err" /\ fnOut.err.kind = "InvalidDDF" /\ fnOut.err.name = NameOfInput
        ELSE fnOut.tag = "Ok" /\ fnOut.val.foc = zip(TagsOfInput, SpecsOfInput)

\* C6 as amended: the same, for a DDF that has its three segments, whose
\* first segment holds 9 bytes of field controls that decode and a name that
\* is UTF-8.
C6_CountsDecideWhenControlsDecode ==
    (pc = "done" /\ fnIn.parts = 3 /\ fnIn.fic = Fic_Good /\ from_utf8(fnIn.name)) =>
        IF Len(TagsOfInput) # Len(SpecsOfInput)
        THEN fnOut.tag = "Err" /\ fnOut.err.kind = "InvalidDDF" /\ fnOut.err.name = NameOfInput
        ELSE /\ fnOut.tag = "Ok"
             /\ Len(fnOut.val.foc) = Len(TagsOfInput)
             /\ \A i \in 1..Len(TagsOfInput) :
                  fnOut.val.foc[i] = <<TagsOfInput[i], SpecsOfInput[i]>>

C6_Witness ==
    /\ pc = "done"
    /\ fnIn.parts = 3
    /\ Len(fnIn.tags) = 2
    /\ fnIn.tags[1] # fnIn.tags[2]
    /\ fnOut.tag = "Ok"
    /\ Len(fnOut.val.foc) = 2
    /\ fnOut.val.foc[1][2] # fnOut.val.foc[2][2]

====
